---- MODULE Spec2Model ----
(***************************************************************************)
(* Model of static/script.js: the upload form's submit handler, the status *)
(* presenter functions and the result renderer.                            *)
(*                                                                         *)
(* JavaScript runs each handler to its next await without interleaving;    *)
(* the model keeps the statements that change a region's visibility as     *)
(* separate steps (pc names the next line to run) and lets no other event  *)
(* run while a handler is between two awaits.                              *)
(***************************************************************************)
EXTENDS Integers, Sequences, FiniteSets, TLC

VARIABLES
    dom,        \* the elements looked up at lines 2-11, as one record
    file,       \* fileInput.files[0], or NoFile
    pc,         \* pc[i]: position of the i-th run of the submit handler
    started,    \* number of runs of the handler that passed validation
    respOk,     \* respOk[i]: response.ok of run i, once fetch resolved
    requests,   \* history: number of fetch calls issued
    hideCalls,  \* history: hideCalls[i] = calls of hideLoading by run i
    prior,      \* history: what was visible when the latest run started
    lastRes,    \* history: how the latest remote call resolved
    last        \* history: the operation that ran last

vars == <<dom, file, pc, started, respOk, requests, hideCalls, prior, lastRes, last>>

----------------------------------------------------------------------------
(* Bounds and input domains *)

MaxSubmissions == 2

Ids == 1..MaxSubmissions

NoFile == "<no file>"

Files == {"contract.pdf"}

FileNames == {"contract.pdf"}

\* values of a category in the response: arrays of sentences, or not an array
SentenceLists == {<<"s1">>, <<"s1", "s2">>}

NotAnArray == [isArray |-> FALSE, elems |-> <<>>]

CategoryValues == {[isArray |-> TRUE, elems |-> s] : s \in SentenceLists} \cup {NotAnArray}

\* category identifiers, as sequences of characters
Keys == {<<"a", "_", "b">>, <<"c">>, <<"1">>}

Members1 == {<<[key |-> k, value |-> v]>> : k \in Keys, v \in CategoryValues}

\* the members of `clauses` in the order of the response text, keys distinct
MemberLists ==
    {<<>>} \cup Members1
    \cup {m \in {m1 \o m2 : m1 \in Members1, m2 \in Members1} :
               m[1].key # m[2].key}

Absent == [present |-> FALSE, value |-> ""]

NoClauses == [defined |-> FALSE, members |-> <<>>]

Totals == {0, 2}

\* the body `null`: valid JSON that is no object
NullBody ==
    [kind |-> "null", error |-> Absent, filename |-> "",
     total_clauses_found |-> 0, clauses |-> NoClauses]

\* bodies of success responses, well-formed or not
ResultBodies ==
    {[kind |-> "object", error |-> Absent, filename |-> f,
      total_clauses_found |-> t, clauses |-> c] :
        f \in FileNames, t \in Totals,
        c \in {[defined |-> TRUE, members |-> m] : m \in MemberLists}
              \cup {NoClauses}}

ServerErrors == {"", "file is not a valid PDF"}

\* bodies of failure responses: an `error` field, empty, or none
ErrorBodies ==
    {[kind |-> "object", error |-> e, filename |-> "",
      total_clauses_found |-> 0, clauses |-> NoClauses] :
        e \in {Absent} \cup {[present |-> TRUE, value |-> v] : v \in ServerErrors}}

\* descriptions of the failures fetch and response.json() reject with
FetchFailures == {"Failed to fetch", ""}

JsonFailures == {"Unexpected token < in JSON at position 0"}

----------------------------------------------------------------------------
(* Texts of the program *)

ChooseFileLabel == "Choose PDF file..."

ValidationMessage == "Please select a PDF file first"

UploadFailed == "Upload failed"

GenericFallback == "An error occurred while processing the file"

PlaceholderText == "No standard contract clauses were identified in this document."

\* descriptions of the TypeErrors the engine throws
NullPropertyError == "Cannot read properties of null"

EntriesError == "Cannot convert undefined or null to object"

ForEachError == "sentences.forEach is not a function"

----------------------------------------------------------------------------
(* Status presenter *)

Visible(display) == display = "block"

showLoading_keepsEnabled(d) == [d EXCEPT !.spinner = "block"]

showLoading(d) == [d EXCEPT !.spinner = "block", !.btnDisabled = TRUE]

hideLoading_toggles(d) ==
    [d EXCEPT !.spinner = IF @ = "block" THEN "none" ELSE "block",
              !.btnDisabled = ~@]

hideLoading_keepsDisabled(d) == [d EXCEPT !.spinner = "none"]

hideLoading(d) == [d EXCEPT !.spinner = "none", !.btnDisabled = FALSE]

showError(d, message) == [d EXCEPT !.errText = message, !.errDisplay = "block"]

hideError_hidesLoading(d) == [d EXCEPT !.errDisplay = "none", !.spinner = "none"]

hideError_skipped(d) == d

hideError(d) == [d EXCEPT !.errDisplay = "none"]

hideResults_skipped(d) == d

hideResults(d) == [d EXCEPT !.resDisplay = "none"]

----------------------------------------------------------------------------
(* Result renderer *)

Digits == {"0", "1", "2", "3", "4", "5", "6", "7", "8", "9"}

DigitValue(c) ==
    CASE c = "0" -> 0 [] c = "1" -> 1 [] c = "2" -> 2 [] c = "3" -> 3
      [] c = "4" -> 4 [] c = "5" -> 5 [] c = "6" -> 6 [] c = "7" -> 7
      [] c = "8" -> 8 [] c = "9" -> 9

\* a property key that is a canonical array index ("0", "1", "12", not "01")
IsArrayIndex(k) ==
    /\ Len(k) > 0
    /\ \A i \in 1..Len(k) : k[i] \in Digits
    /\ (Len(k) > 1 => k[1] # "0")

RECURSIVE KeyNumber(_)
KeyNumber(k) ==
    IF Len(k) = 0 THEN 0
    ELSE 10 * KeyNumber(SubSeq(k, 1, Len(k) - 1)) + DigitValue(k[Len(k)])

IsIndexMember(m) == IsArrayIndex(m.key)

IsStringMember(m) == ~IsArrayIndex(m.key)

RECURSIVE SortByIndex(_)
SortByIndex(ms) ==
    IF Len(ms) = 0 THEN <<>>
    ELSE LET least == CHOOSE i \in 1..Len(ms) :
                          \A j \in 1..Len(ms) :
                              KeyNumber(ms[i].key) <= KeyNumber(ms[j].key)
             rest == [j \in 1..(Len(ms) - 1) |->
                          IF j < least THEN ms[j] ELSE ms[j + 1]]
         IN <<ms[least]>> \o SortByIndex(rest)

\* Object.entries: array-index keys first, ascending, then the other keys in
\* the order the parser created them (the order of the response text)
ObjectEntries(members) ==
    SortByIndex(SelectSeq(members, IsIndexMember))
        \o SelectSeq(members, IsStringMember)

\* clauseType.replace(/_/g, ' ')
ReplaceUnderscores(k) == [i \in 1..Len(k) |-> IF k[i] = "_" THEN " " ELSE k[i]]

CountBadge_pluralized(sentences) ==
    IF Len(sentences.elems) = 1 THEN "1 clause found"
    ELSE ToString(Len(sentences.elems)) \o " clauses found"

\* `${sentences.length} found`
CountBadge(sentences) == ToString(Len(sentences.elems)) \o " found"

PlaceholderNode ==
    [tag |-> "p", title |-> <<>>, count |-> "", items |-> <<>>,
     text |-> PlaceholderText]

\* the element createClauseElement returns, or the TypeError of forEach on a
\* value that is no array (thrown before the caller appends anything)
createClauseElement(clauseType, sentences) ==
    IF ~sentences.isArray
    THEN [threw |-> TRUE, message |-> ForEachError, node |-> PlaceholderNode]
    ELSE [threw |-> FALSE, message |-> "",
          node |-> [tag |-> "div", title |-> ReplaceUnderscores(clauseType),
                    count |-> CountBadge(sentences),
                    items |-> sentences.elems, text |-> ""]]

\* the for loop of displayResults: append one element per entry, stopping at
\* the first entry whose element cannot be built
RECURSIVE AppendClauses(_, _)
AppendClauses(container, entries) ==
    IF Len(entries) = 0
    THEN [threw |-> FALSE, message |-> "", container |-> container]
    ELSE LET el == createClauseElement(entries[1].key, entries[1].value)
         IN IF el.threw
            THEN [threw |-> TRUE, message |-> el.message, container |-> container]
            ELSE AppendClauses(Append(container, el.node), Tail(entries))

ClearClauses_skipped(d) == d

\* clausesContainer.innerHTML = ''
ClearClauses(d) == [d EXCEPT !.container = <<>>]

NoClausesFound_byIteration(data) ==
    data.clauses.defined /\ Len(data.clauses.members) = 0

\* data.total_clauses_found === 0
NoClausesFound(data) == data.total_clauses_found = 0

RECURSIVE SentenceCount(_)
SentenceCount(members) ==
    IF Len(members) = 0 THEN 0
    ELSE Len(members[1].value.elems) + SentenceCount(Tail(members))

WriteSummary_countsSentences(d, data) ==
    [d EXCEPT !.resultFileName = data.filename,
              !.totalClauses = ToString(SentenceCount(data.clauses.members))]

\* the summary slots: textContent = data.filename, data.total_clauses_found
WriteSummary(d, data) ==
    [d EXCEPT !.resultFileName = data.filename,
              !.totalClauses = ToString(data.total_clauses_found)]

\* displayResults(data) on the page d: the page it leaves, and whether it
\* threw (scrollIntoView changes nothing the model holds)
displayResults(d, data) ==
    IF data.kind = "null"
    THEN [dom |-> d, threw |-> TRUE, message |-> NullPropertyError]
    ELSE
    LET d1 == WriteSummary(d, data)
        d2 == ClearClauses(d1)
    IN IF NoClausesFound(data)
       THEN [dom |-> [d2 EXCEPT !.container = <<PlaceholderNode>>,
                                !.resDisplay = "block"],
             threw |-> FALSE, message |-> ""]
       ELSE IF ~data.clauses.defined
       THEN [dom |-> d2, threw |-> TRUE, message |-> EntriesError]
       ELSE LET r == AppendClauses(d2.container,
                                   ObjectEntries(data.clauses.members))
            IN IF r.threw
               THEN [dom |-> [d2 EXCEPT !.container = r.container],
                     threw |-> TRUE, message |-> r.message]
               ELSE [dom |-> [d2 EXCEPT !.container = r.container,
                                        !.resDisplay = "block"],
                     threw |-> FALSE, message |-> ""]

----------------------------------------------------------------------------
(* Upload controller *)

ErrorText_alwaysGeneric(data) == UploadFailed

\* data.error || 'Upload failed'
ErrorText(data) ==
    IF data.error.present /\ data.error.value # ""
    THEN data.error.value ELSE UploadFailed

CatchBlock_noFallback(d, message) == showError(d, message)

CatchBlock_alwaysFallback(d, message) == showError(d, GenericFallback)

\* catch (error) { showError(error.message || '...') }
CatchBlock(d, message) ==
    showError(d, IF message # "" THEN message ELSE GenericFallback)

HandleBody_noCatch(d, ok, data) ==
    IF ~ok
    THEN IF data.kind = "null"
         THEN [dom |-> CatchBlock(d, NullPropertyError), threw |-> TRUE]
         ELSE [dom |-> CatchBlock(d, ErrorText(data)), threw |-> TRUE]
    ELSE LET r == displayResults(d, data)
         IN [dom |-> r.dom, threw |-> r.threw]

\* lines 109-114 with the catch block: what the handler does with the parsed
\* body of a response
HandleBody(d, ok, data) ==
    IF ~ok
    THEN IF data.kind = "null"
         THEN [dom |-> CatchBlock(d, NullPropertyError), threw |-> TRUE]
         ELSE [dom |-> CatchBlock(d, ErrorText(data)), threw |-> TRUE]
    ELSE LET r == displayResults(d, data)
         IN IF r.threw
            THEN [dom |-> CatchBlock(r.dom, r.message), threw |-> TRUE]
            ELSE [dom |-> r.dom, threw |-> FALSE]

SyncPcs == {"L96", "L97", "L98", "L102", "L119"}

\* no handler is between two awaits: the event loop can run another task
Quiet == \A i \in Ids : pc[i] \notin SyncPcs

\* a disabled submit button submits nothing
CanSubmit == Quiet /\ ~dom.btnDisabled

NoResolution ==
    [id |-> 0, kind |-> "none", ok |-> FALSE, failure |-> "",
     body |-> NullBody, threw |-> FALSE, overNonEmpty |-> FALSE]

\* the page as loaded: the script only ever sets display to 'block' or 'none',
\* and the three regions start hidden (the state the spec calls Idle)
Init ==
    /\ dom = [fileName |-> ChooseFileLabel, spinner |-> "none",
              btnDisabled |-> FALSE, errDisplay |-> "none", errText |-> "",
              resDisplay |-> "none", resultFileName |-> "",
              totalClauses |-> "", container |-> <<>>]
    /\ file = NoFile
    /\ pc = [i \in Ids |-> "unused"]
    /\ started = 0
    /\ respOk = [i \in Ids |-> FALSE]
    /\ requests = 0
    /\ hideCalls = [i \in Ids |-> 0]
    /\ prior = [error |-> FALSE, results |-> FALSE]
    /\ lastRes = NoResolution
    /\ last = "init"

\* fileInput 'change' (lines 73-79): the selection changes or is cleared
ChangeFile(f) ==
    /\ Quiet
    /\ f # file
    /\ file' = f
    /\ dom' = [dom EXCEPT !.fileName = IF f # NoFile THEN f ELSE ChooseFileLabel]
    /\ last' = "change"
    /\ UNCHANGED <<pc, started, respOk, requests, hideCalls, prior, lastRes>>

SubmitNoFile_hidesResults ==
    /\ CanSubmit
    /\ file = NoFile
    /\ dom' = hideResults(showError(dom, ValidationMessage))
    /\ last' = "submitNoFile"
    /\ UNCHANGED <<file, pc, started, respOk, requests, hideCalls, prior, lastRes>>

SubmitNoFile_startsLoading ==
    /\ CanSubmit
    /\ file = NoFile
    /\ dom' = showLoading(showError(dom, ValidationMessage))
    /\ last' = "submitNoFile"
    /\ UNCHANGED <<file, pc, started, respOk, requests, hideCalls, prior, lastRes>>

\* submit with no file selected (lines 83-89)
SubmitNoFile ==
    /\ CanSubmit
    /\ file = NoFile
    /\ dom' = showError(dom, ValidationMessage)
    /\ last' = "submitNoFile"
    /\ UNCHANGED <<file, pc, started, respOk, requests, hideCalls, prior, lastRes>>

\* submit with a file (lines 83-93): validation passes, the form data is built
SubmitFile ==
    /\ CanSubmit
    /\ file # NoFile
    /\ started < MaxSubmissions
    /\ started' = started + 1
    /\ pc' = [pc EXCEPT ![started + 1] = "L96"]
    /\ prior' = [error |-> Visible(dom.errDisplay),
                 results |-> Visible(dom.resDisplay)]
    /\ last' = "submitFile"
    /\ UNCHANGED <<dom, file, respOk, requests, hideCalls, lastRes>>

\* line 96
ShowLoadingStep(i) ==
    /\ pc[i] = "L96"
    /\ dom' = showLoading(dom)
    /\ pc' = [pc EXCEPT ![i] = "L97"]
    /\ last' = "showLoading"
    /\ UNCHANGED <<file, started, respOk, requests, hideCalls, prior, lastRes>>

\* line 97
HideErrorStep(i) ==
    /\ pc[i] = "L97"
    /\ dom' = hideError(dom)
    /\ pc' = [pc EXCEPT ![i] = "L98"]
    /\ last' = "hideError"
    /\ UNCHANGED <<file, started, respOk, requests, hideCalls, prior, lastRes>>

\* line 98
HideResultsStep(i) ==
    /\ pc[i] = "L98"
    /\ dom' = hideResults(dom)
    /\ pc' = [pc EXCEPT ![i] = "L102"]
    /\ last' = "hideResults"
    /\ UNCHANGED <<file, started, respOk, requests, hideCalls, prior, lastRes>>

\* lines 102-105: the request is issued and the handler suspends
CallFetch(i) ==
    /\ pc[i] = "L102"
    /\ requests' = requests + 1
    /\ pc' = [pc EXCEPT ![i] = "awaitFetch"]
    /\ last' = "fetch"
    /\ UNCHANGED <<dom, file, started, respOk, hideCalls, prior, lastRes>>

\* fetch resolves with a response; line 107 starts reading its body
FetchResolve(i, ok) ==
    /\ Quiet
    /\ pc[i] = "awaitFetch"
    /\ respOk' = [respOk EXCEPT ![i] = ok]
    /\ pc' = [pc EXCEPT ![i] = "awaitJson"]
    /\ last' = "response"
    /\ UNCHANGED <<dom, file, started, requests, hideCalls, prior, lastRes>>

\* fetch rejects: no response; the catch block runs
FetchReject(i, failure) ==
    /\ Quiet
    /\ pc[i] = "awaitFetch"
    /\ dom' = CatchBlock(dom, failure)
    /\ pc' = [pc EXCEPT ![i] = "L119"]
    /\ lastRes' = [NoResolution EXCEPT !.id = i, !.kind = "fetchRejected",
                                       !.failure = failure, !.threw = TRUE]
    /\ last' = "catch"
    /\ UNCHANGED <<file, started, respOk, requests, hideCalls, prior>>

\* response.json() rejects: the body is no JSON; the catch block runs
JsonReject(i, failure) ==
    /\ Quiet
    /\ pc[i] = "awaitJson"
    /\ dom' = CatchBlock(dom, failure)
    /\ pc' = [pc EXCEPT ![i] = "L119"]
    /\ lastRes' = [NoResolution EXCEPT !.id = i, !.kind = "jsonRejected",
                                       !.ok = respOk[i],
                                       !.failure = failure, !.threw = TRUE]
    /\ last' = "catch"
    /\ UNCHANGED <<file, started, respOk, requests, hideCalls, prior>>

\* response.json() resolves with the parsed body (lines 107-117)
JsonResolve(i, data) ==
    /\ Quiet
    /\ pc[i] = "awaitJson"
    /\ LET r == HandleBody(dom, respOk[i], data)
       IN /\ dom' = r.dom
          /\ lastRes' = [id |-> i, kind |-> "parsed", ok |-> respOk[i],
                         failure |-> "", body |-> data, threw |-> r.threw,
                         overNonEmpty |-> respOk[i] /\ Len(dom.container) > 0]
    /\ pc' = [pc EXCEPT ![i] = "L119"]
    /\ last' = IF respOk[i] THEN "render" ELSE "catch"
    /\ UNCHANGED <<file, started, respOk, requests, hideCalls, prior>>

\* finally { hideLoading(); } (lines 118-120)
FinallyStep(i) ==
    /\ pc[i] = "L119"
    /\ dom' = hideLoading(dom)
    /\ hideCalls' = [hideCalls EXCEPT ![i] = @ + 1]
    /\ pc' = [pc EXCEPT ![i] = "done"]
    /\ last' = "finally"
    /\ UNCHANGED <<file, started, respOk, requests, prior, lastRes>>

Next ==
    \/ \E f \in Files \cup {NoFile} : ChangeFile(f)
    \/ SubmitNoFile
    \/ SubmitFile
    \/ \E i \in Ids : ShowLoadingStep(i)
    \/ \E i \in Ids : HideErrorStep(i)
    \/ \E i \in Ids : HideResultsStep(i)
    \/ \E i \in Ids : CallFetch(i)
    \/ \E i \in Ids, ok \in BOOLEAN : FetchResolve(i, ok)
    \/ \E i \in Ids, m \in FetchFailures : FetchReject(i, m)
    \/ \E i \in Ids, m \in JsonFailures : JsonReject(i, m)
    \/ \E i \in Ids :
          \E data \in (IF respOk[i] THEN ResultBodies ELSE ErrorBodies)
                          \cup {NullBody} : JsonResolve(i, data)
    \/ \E i \in Ids : FinallyStep(i)

Spec == Init /\ [][Next]_vars

\* the statements of a handler between two awaits: once a handler runs, the
\* engine runs it to its next await or to its end
SyncStep ==
    \E i \in Ids :
        \/ ShowLoadingStep(i) \/ HideErrorStep(i) \/ HideResultsStep(i)
        \/ CallFetch(i) \/ FinallyStep(i)

\* Spec with run-to-completion; nothing obliges the remote call to resolve
FairSpec == Spec /\ WF_vars(SyncStep)

----------------------------------------------------------------------------
(* Properties *)

SpinnerVisible == Visible(dom.spinner)

ErrorVisible == Visible(dom.errDisplay)

ResultsVisible == Visible(dom.resDisplay)

\* the regions other than the idle form that are visible
VisibleRegions ==
    {r \in {"loading", "error", "results"} :
        \/ r = "loading" /\ SpinnerVisible
        \/ r = "error" /\ ErrorVisible
        \/ r = "results" /\ ResultsVisible}

\* the Error state: only the error banner is visible
ErrorState == ErrorVisible /\ ~ResultsVisible /\ ~SpinnerVisible

\* the latest submission has just completed
JustCompleted == last = "finally"

\* the latest remote call resolved with a body that parsed as a JSON object
ParsedObject == lastRes.kind = "parsed" /\ lastRes.body.kind = "object"

\* the latest remote call handed a body to displayResults
Rendered == ParsedObject /\ lastRes.ok

\* C1: between handler runs at most one of loading indicator, error banner
\* and results panel is visible (the idle form being the region of the state
\* in which none is); in particular never the banner with the panel.
C1_OneRegionVisible == Quiet => Cardinality(VisibleRegions) <= 1

\* C2: every run of the handler that entered Loading calls hideLoading
\* exactly once, on whichever path it leaves the try block, not before, and
\* when it completes the indicator is hidden and the submit control enabled.
C2_LoadingClearedOnce ==
    /\ \A i \in Ids :
          /\ pc[i] \in {"L97", "L98", "L102", "awaitFetch", "awaitJson", "L119"}
                => hideCalls[i] = 0
          /\ pc[i] = "done" => hideCalls[i] = 1
    /\ JustCompleted => ~SpinnerVisible /\ ~dom.btnDisabled

\* C2 witness: a run whose rendering threw has completed.
C2_Witness ==
    /\ JustCompleted
    /\ lastRes.kind = "parsed" /\ lastRes.ok /\ lastRes.threw
    /\ hideCalls[lastRes.id] = 1

C4_HiddenBeforeLoading ==
    \A i \in Ids :
        pc[i] \in {"L97", "L98", "L102", "awaitFetch", "awaitJson"}
            /\ SpinnerVisible
        => ~ErrorVisible /\ ~ResultsVisible

\* C4 (amended): showLoading runs first; the banner and the panel are hidden
\* after it in the same run of the handler, so from the moment the request
\* is issued until it resolves the loading indicator is the only one of the
\* three that is visible.
C4_HiddenWhenSuspended ==
    \A i \in Ids :
        /\ pc[i] \in {"L97", "L98", "L102", "awaitFetch", "awaitJson"}
              => SpinnerVisible
        /\ pc[i] \in {"L102", "awaitFetch", "awaitJson"}
              => ~ErrorVisible /\ ~ResultsVisible

\* C4 witness: a request is in flight for a submission that started while
\* both the banner and the panel were visible.
C4_Witness ==
    \E i \in Ids :
        pc[i] = "awaitFetch" /\ started = i /\ prior.error /\ prior.results

\* C5 (as claimed): after a response with a non-success status the
\* submission ends in Error with the body's error field when present, and
\* otherwise "Upload failed".
C5_ErrorFieldOrUploadFailed ==
    JustCompleted /\ lastRes.kind \in {"parsed", "jsonRejected"} /\ ~lastRes.ok
    => /\ ErrorState
       /\ dom.errText = IF lastRes.body.error.present
                        THEN lastRes.body.error.value ELSE UploadFailed

\* C5 (amended): after a response with a non-success status whose body
\* parses as a JSON object the submission ends in Error with the error field
\* when it is a non-empty string and "Upload failed" when it is absent or
\* empty; when the body cannot be parsed the banner shows the description
\* of the parse failure.
C5_NonEmptyErrorFieldOrUploadFailed ==
    JustCompleted /\ ~lastRes.ok =>
       /\ ParsedObject =>
             /\ ErrorState
             /\ dom.errText =
                   IF lastRes.body.error.present
                      /\ lastRes.body.error.value # ""
                   THEN lastRes.body.error.value ELSE UploadFailed
       /\ lastRes.kind = "jsonRejected" =>
             /\ ErrorState
             /\ dom.errText \in JsonFailures
             /\ dom.errText = lastRes.failure

\* C5 witness: a 4xx response carrying an error message has been handled.
C5_Witness ==
    /\ JustCompleted /\ ParsedObject /\ ~lastRes.ok
    /\ lastRes.body.error.present
    /\ lastRes.body.error.value = "file is not a valid PDF"

\* C6 (as claimed): after the request rejects or the body cannot be parsed
\* the submission ends in Error with the generic fallback message.
C6_GenericFallbackShown ==
    JustCompleted /\ lastRes.kind \in {"fetchRejected", "jsonRejected"}
    => ErrorState /\ dom.errText = GenericFallback

\* C6 (amended): after the request rejects or the body cannot be parsed the
\* submission ends in Error with the failure's description, and with the
\* generic fallback message only when that description is empty.
C6_FailureDescriptionShown ==
    JustCompleted /\ lastRes.kind \in {"fetchRejected", "jsonRejected"}
    => /\ ErrorState
       /\ dom.errText = IF lastRes.failure # ""
                        THEN lastRes.failure ELSE GenericFallback

\* C6 witness: a rejected request with a description has been handled.
C6_Witness ==
    /\ JustCompleted /\ lastRes.kind = "fetchRejected"
    /\ lastRes.failure = "Failed to fetch"

\* C7: a rendered result whose total_clauses_found is 0 leaves the clause
\* container holding the placeholder alone, whatever `clauses` holds.
C7_ZeroTotalPlaceholder ==
    Rendered /\ lastRes.body.total_clauses_found = 0
    => /\ ~lastRes.threw
       /\ dom.container = <<PlaceholderNode>>
       /\ \A i \in 1..Len(dom.container) : dom.container[i].tag # "div"

\* C7 witness: a result with total 0 and a non-empty `clauses` was rendered.
C7_Witness ==
    /\ Rendered /\ lastRes.body.total_clauses_found = 0
    /\ lastRes.body.clauses.defined
    /\ Len(lastRes.body.clauses.members) > 0
    /\ ResultsVisible

\* the result is well-formed: `clauses` maps every category to an array
WellFormed(data) ==
    /\ data.clauses.defined
    /\ \A i \in 1..Len(data.clauses.members) :
          data.clauses.members[i].value.isArray

\* C8: a rendered well-formed result with total_clauses_found > 0 leaves one
\* group per key of `clauses`, in the order the server gave the keys, each
\* with one item per sentence in input order, and no placeholder.
C8_GroupsInServerOrder ==
    Rendered /\ lastRes.body.total_clauses_found > 0 /\ WellFormed(lastRes.body)
    => LET members == lastRes.body.clauses.members
       IN /\ ~lastRes.threw
          /\ Len(dom.container) = Len(members)
          /\ \A i \in 1..Len(members) :
                /\ dom.container[i].tag = "div"
                /\ dom.container[i].title = ReplaceUnderscores(members[i].key)
                /\ dom.container[i].items = members[i].value.elems

\* the wordings a count badge may have after its number
BadgeForms == {" found", " clause found", " clauses found"}

Groups == {i \in 1..Len(dom.container) : dom.container[i].tag = "div"}

GroupOf(entry) ==
    [tag |-> "div", title |-> ReplaceUnderscores(entry.key),
     count |-> ToString(Len(entry.value.elems)) \o " found",
     items |-> entry.value.elems, text |-> ""]

\* what a result alone determines the container to hold
ContentOf(data) ==
    IF data.total_clauses_found = 0 THEN <<PlaceholderNode>>
    ELSE LET entries == ObjectEntries(data.clauses.members)
         IN [i \in 1..Len(entries) |-> GroupOf(entries[i])]

\* C10: after a result was rendered the container holds what that result
\* alone determines, nothing of what it held before, and rendering the same
\* result once more leaves the same content.
C10_NoAccumulation ==
    Rendered /\ ~lastRes.threw
    => /\ dom.container = ContentOf(lastRes.body)
       /\ displayResults(dom, lastRes.body).dom.container = dom.container

\* C10 witness: a second result with groups was rendered over a container
\* that held an earlier result.
C10_Witness ==
    /\ Rendered /\ ~lastRes.threw /\ lastRes.overNonEmpty
    /\ lastRes.id >= 2
    /\ Groups # {}

\* C11: whenever the results panel is visible the summary slots hold the
\* filename and the total_clauses_found of the rendered response, the total
\* as the server gave it, whatever number of sentences is rendered.
C11_SummaryEchoesServer ==
    ResultsVisible
    => /\ Rendered /\ ~lastRes.threw
       /\ dom.resultFileName = lastRes.body.filename
       /\ dom.totalClauses = ToString(lastRes.body.total_clauses_found)

\* C11 witness: results are visible whose total (2) differs from the number
\* of sentences rendered (1).
C11_Witness ==
    /\ ResultsVisible
    /\ dom.totalClauses = "2"
    /\ Len(dom.container) = 1
    /\ dom.container[1].tag = "div"
    /\ Len(dom.container[1].items) = 1

\* C12: whenever the results panel is visible, the result shown is that of
\* the request issued last, and that request has resolved successfully: once
\* the next request is issued no earlier result is shown.
C12_ResultsOfLatestRequest ==
    ResultsVisible
    => /\ Rendered /\ ~lastRes.threw
       /\ lastRes.id = requests
       /\ (Quiet => lastRes.id = started)
       /\ pc[lastRes.id] \in {"L119", "done"}
       /\ dom.container = ContentOf(lastRes.body)

\* C12 witness: the results of a second submission are visible.
C12_Witness == ResultsVisible /\ lastRes.id = 2 /\ pc[2] = "done"

\* the request of run i is in flight
InFlight(i) == pc[i] \in {"awaitFetch", "awaitJson"}

\* C13: while a request is in flight the loading indicator is visible and
\* the submit control disabled, and at most one request is in flight.
C13_OneRequestInFlight ==
    /\ \A i \in Ids : InFlight(i) => SpinnerVisible /\ dom.btnDisabled
    /\ Cardinality({i \in Ids : InFlight(i)}) <= 1

\* C13 witness: the request of a second submission is in flight after the
\* first has completed.
C13_Witness == InFlight(2) /\ pc[1] = "done" /\ pc[2] = "awaitJson"

\* the messages showError is applied to in the check of C14
SomeMessages == {ValidationMessage, UploadFailed, ""}

\* d and e agree on every field outside `own`
SameExcept(d, e, own) == \A f \in (DOMAIN d) \ own : d[f] = e[f]

\* C14: on every reachable page each presenter operation has its effect,
\* applied twice gives what applied once gives, and changes nothing outside
\* its own region; the loading pair keeps the submit control disabled
\* exactly when the spinner is visible.
C14_PresenterIdempotent ==
    /\ showLoading(showLoading(dom)) = showLoading(dom)
    /\ SameExcept(showLoading(dom), dom, {"spinner", "btnDisabled"})
    /\ Visible(showLoading(dom).spinner) /\ showLoading(dom).btnDisabled
    /\ hideLoading(hideLoading(dom)) = hideLoading(dom)
    /\ SameExcept(hideLoading(dom), dom, {"spinner", "btnDisabled"})
    /\ ~Visible(hideLoading(dom).spinner) /\ ~hideLoading(dom).btnDisabled
    /\ \A m \in SomeMessages :
          /\ showError(showError(dom, m), m) = showError(dom, m)
          /\ SameExcept(showError(dom, m), dom, {"errDisplay", "errText"})
          /\ Visible(showError(dom, m).errDisplay)
          /\ showError(dom, m).errText = m
    /\ hideError(hideError(dom)) = hideError(dom)
    /\ SameExcept(hideError(dom), dom, {"errDisplay"})
    /\ ~Visible(hideError(dom).errDisplay)
    /\ hideResults(hideResults(dom)) = hideResults(dom)
    /\ SameExcept(hideResults(dom), dom, {"resDisplay"})
    /\ ~Visible(hideResults(dom).resDisplay)

\* C14 witness: showLoading has just run on a page showing both the banner
\* and the results, so all three regions are visible and every hide
\* operation has something to hide.
C14_Witness ==
    /\ last = "showLoading"
    /\ SpinnerVisible /\ ErrorVisible /\ ResultsVisible

\* exactly one of the results panel and the error banner is visible, the
\* loading indicator is hidden and the submit control enabled
SettledState ==
    /\ ErrorVisible # ResultsVisible
    /\ ~SpinnerVisible
    /\ ~dom.btnDisabled

\* C15: a submission leaves Loading only through the resolution of its
\* request: while the request is unresolved the indicator stays visible,
\* only the finally block of a resolved run hides it (there is no timeout),
\* a request leaves flight only by resolving or rejecting, and once it has,
\* the run completes in exactly one of Results and Error with the submit
\* control enabled for a further submission.
C15_LeavesLoadingByResolution ==
    /\ [](\A i \in Ids : InFlight(i) => SpinnerVisible)
    /\ [][SpinnerVisible /\ ~SpinnerVisible'
            => /\ last' = "finally"
               /\ lastRes.kind # "none"
               /\ pc[lastRes.id] = "L119"]_vars
    /\ [][\A i \in Ids :
            InFlight(i) /\ pc'[i] # pc[i]
            => last' \in {"response", "catch", "render"}]_vars
    /\ (\E i \in Ids : pc[i] = "L119")
          ~> (JustCompleted /\ pc[lastRes.id] = "done" /\ SettledState)

\* C15 witness: a second submission, made from the settled state of the
\* first, has completed in its turn.
C15_Witness ==
    /\ JustCompleted /\ SettledState
    /\ lastRes.id = 2 /\ pc[1] = "done" /\ pc[2] = "done"

\* C16: a submission with no file changes the error banner's text and
\* visibility and nothing else of the page, starts no run of the handler and
\* issues no request.
C16_NoFileFrame ==
    [][last' = "submitNoFile"
        => /\ SameExcept(dom', dom, {"errText", "errDisplay"})
           /\ dom'.errText = ValidationMessage
           /\ Visible(dom'.errDisplay)
           /\ UNCHANGED <<file, pc, started, respOk, requests>>]_vars

\* C16 witness: a submission with no file was made over visible results
\* that hold clause groups.
C16_Witness ==
    /\ last = "submitNoFile"
    /\ ResultsVisible /\ ErrorVisible
    /\ Groups # {}
    /\ dom.totalClauses = "2"

\* the descriptions of the TypeErrors rendering can throw
RenderErrors == {NullPropertyError, EntriesError, ForEachError}

\* C17: when displayResults threw on the body of a success response, the
\* results panel is not visible, and when the handler has caught it and
\* when the submission completes the error banner is visible with the
\* exception's description.
C17_RenderFailureCaught ==
    lastRes.kind = "parsed" /\ lastRes.ok /\ lastRes.threw
    => /\ ~ResultsVisible
       /\ (last = "render" \/ JustCompleted)
             => ErrorVisible /\ dom.errText \in RenderErrors

\* C17 witness: a submission completed whose rendering threw on the second
\* category, after the group of the first was appended.
C17_Witness ==
    /\ JustCompleted
    /\ lastRes.kind = "parsed" /\ lastRes.ok /\ lastRes.threw
    /\ lastRes.body.total_clauses_found > 0
    /\ Len(dom.container) = 1
    /\ dom.errText = ForEachError

\* the messages the banner can show
BannerMessages ==
    {ValidationMessage, UploadFailed, GenericFallback}
        \cup ((ServerErrors \cup FetchFailures \cup JsonFailures) \ {""})
        \cup RenderErrors

\* C18: whenever the error banner is visible its text is one of the
\* non-empty messages; an empty error field has been replaced by "Upload
\* failed" and an empty failure description by the generic fallback.
C18_BannerTextNonEmpty ==
    /\ ErrorVisible => dom.errText # "" /\ dom.errText \in BannerMessages
    /\ JustCompleted /\ ParsedObject /\ ~lastRes.ok
          /\ lastRes.body.error.present /\ lastRes.body.error.value = ""
       => ErrorVisible /\ dom.errText = UploadFailed
    /\ JustCompleted /\ lastRes.kind \in {"fetchRejected", "jsonRejected"}
          /\ lastRes.failure = ""
       => ErrorVisible /\ dom.errText = GenericFallback

\* C18 witness: a request rejected with an empty description has been
\* handled and the banner is visible.
C18_Witness ==
    /\ JustCompleted /\ ErrorVisible
    /\ lastRes.kind = "fetchRejected" /\ lastRes.failure = ""

====
